---- MODULE Spec2Model ----
(***************************************************************************)
(* Model of the coreline hexagonal grid visualizer.                        *)
(*                                                                         *)
(* Two programs live in the repository:                                    *)
(*   src/unnamed/part_000  pointy-top, radius-bounded grid, forgiving Hex  *)
(*   src/script.js         flat-top, rectangle-bounded grid, strict Hex    *)
(*                                                                         *)
(* JavaScript numbers are modelled as exact elements of Q(sqrt 3), the     *)
(* field every expression of the two programs stays in, together with the  *)
(* non-finite values NaN, Infinity, -Infinity and the value undefined.     *)
(* IEEE rounding error and the sign of zero are not modelled.              *)
(***************************************************************************)
EXTENDS Integers, Sequences, FiniteSets, TLC

(***************************************************************************)
(* Numbers: (a + b*sqrt(3)) / d with d > 0, kept in lowest terms.           *)
(***************************************************************************)
RECURSIVE Gcd(_, _)
Gcd(m, n) == IF n = 0 THEN m ELSE Gcd(n, m % n)

AbsInt(n) == IF n < 0 THEN -n ELSE n

NaN == [k |-> "nan", a |-> 0, b |-> 0, d |-> 1]
Infinity == [k |-> "inf", a |-> 0, b |-> 0, d |-> 1]
NegInfinity == [k |-> "ninf", a |-> 0, b |-> 0, d |-> 1]
undefined == [k |-> "undef", a |-> 0, b |-> 0, d |-> 1]

Fin(a, b, d) ==
    IF d = 1 THEN [k |-> "fin", a |-> a, b |-> b, d |-> 1]
    ELSE LET g == Gcd(Gcd(AbsInt(a), AbsInt(b)), d)
         IN  [k |-> "fin", a |-> a \div g, b |-> b \div g, d |-> d \div g]

Num(n) == [k |-> "fin", a |-> n, b |-> 0, d |-> 1]
Frac(n, d) == Fin(n, 0, d)

IsFinite(x) == x.k = "fin"
IsNaN(x) == x.k \in {"nan", "undef"}
IsInteger(x) == x.k = "fin" /\ x.b = 0 /\ x.d = 1

\* sign of a finite number: a + b*sqrt(3) compared with 0 by squaring
SignFin(x) ==
    IF x.a = 0 /\ x.b = 0 THEN 0
    ELSE IF x.a >= 0 /\ x.b >= 0 THEN 1
    ELSE IF x.a <= 0 /\ x.b <= 0 THEN -1
    ELSE IF x.a > 0 THEN (IF x.a * x.a > 3 * x.b * x.b THEN 1 ELSE -1)
    ELSE (IF 3 * x.b * x.b > x.a * x.a THEN 1 ELSE -1)

Sign(x) ==
    CASE x.k = "fin" -> SignFin(x)
      [] x.k = "inf" -> 1
      [] x.k = "ninf" -> -1
      [] OTHER -> 0

Neg(x) ==
    CASE x.k = "fin" -> [x EXCEPT !.a = -x.a, !.b = -x.b]
      [] x.k = "inf" -> NegInfinity
      [] x.k = "ninf" -> Infinity
      [] OTHER -> NaN

Add(x, y) ==
    IF IsNaN(x) \/ IsNaN(y) THEN NaN
    ELSE IF IsFinite(x) /\ IsFinite(y)
         THEN Fin(x.a * y.d + y.a * x.d, x.b * y.d + y.b * x.d, x.d * y.d)
    ELSE IF IsFinite(x) THEN y
    ELSE IF IsFinite(y) THEN x
    ELSE IF x.k = y.k THEN x
    ELSE NaN

Sub(x, y) == Add(x, Neg(y))

Mul(x, y) ==
    IF IsNaN(x) \/ IsNaN(y) THEN NaN
    ELSE IF IsFinite(x) /\ IsFinite(y)
         THEN Fin(x.a * y.a + 3 * x.b * y.b, x.a * y.b + x.b * y.a, x.d * y.d)
    ELSE IF Sign(x) * Sign(y) = 0 THEN NaN
    ELSE IF Sign(x) * Sign(y) > 0 THEN Infinity
    ELSE NegInfinity

\* 1 / y for a finite non-zero y, through the conjugate a - b*sqrt(3)
Recip(y) ==
    LET n == y.a * y.a - 3 * y.b * y.b
    IN  IF n > 0 THEN Fin(y.d * y.a, -(y.d * y.b), n)
        ELSE Fin(-(y.d * y.a), y.d * y.b, -n)

Div(x, y) ==
    IF IsNaN(x) \/ IsNaN(y) THEN NaN
    ELSE IF IsFinite(x) /\ IsFinite(y)
         THEN IF Sign(y) # 0 THEN Mul(x, Recip(y))
              ELSE IF Sign(x) = 0 THEN NaN
              ELSE IF Sign(x) > 0 THEN Infinity
              ELSE NegInfinity
    ELSE IF IsFinite(x) THEN Num(0)
    ELSE IF IsFinite(y)
         THEN (IF Sign(x) * Sign(y) >= 0 THEN Infinity ELSE NegInfinity)
    ELSE NaN

\* the JavaScript comparisons: every comparison with NaN is false
Lt(x, y) ==
    IF IsNaN(x) \/ IsNaN(y) THEN FALSE
    ELSE IF IsFinite(x) /\ IsFinite(y) THEN Sign(Sub(x, y)) < 0
    ELSE IF x.k = y.k THEN FALSE
    ELSE x.k = "ninf" \/ y.k = "inf"

Gt(x, y) == Lt(y, x)
Le(x, y) == ~IsNaN(x) /\ ~IsNaN(y) /\ ~Lt(y, x)
Ge(x, y) == Le(y, x)
\* === on numbers (undefined === undefined is not needed by the programs)
StrictEq(x, y) == ~IsNaN(x) /\ ~IsNaN(y) /\ x = y

\* Math.floor of a finite number: the integer k with k <= x < k + 1
FloorFin(x) ==
    IF x.b = 0 THEN x.a \div x.d
    ELSE LET est == (x.a * 1000 + x.b * 1732) \div (x.d * 1000)
         IN  CHOOSE k \in (est - 2)..(est + 2) :
                 /\ Sign(Sub(x, Num(k))) >= 0
                 /\ Sign(Sub(x, Num(k + 1))) < 0

MathFloor(x) == IF IsFinite(x) THEN Num(FloorFin(x)) ELSE IF IsNaN(x) THEN NaN ELSE x
MathCeil(x) == Neg(MathFloor(Neg(x)))
\* Math.round rounds to the nearest integer, halves towards +Infinity
MathRound(x) == IF IsFinite(x) THEN Num(FloorFin(Add(x, Frac(1, 2)))) ELSE IF IsNaN(x) THEN NaN ELSE x
MathAbs(x) == IF Sign(x) < 0 THEN Neg(x) ELSE IF IsNaN(x) THEN NaN ELSE x
MathMin(x, y) == IF IsNaN(x) \/ IsNaN(y) THEN NaN ELSE IF Lt(y, x) THEN y ELSE x
MathMax(x, y) == IF IsNaN(x) \/ IsNaN(y) THEN NaN ELSE IF Gt(y, x) THEN y ELSE x

(***************************************************************************)
(* src/unnamed/part_000: geometry                                          *)
(***************************************************************************)
BASE_HEX_SIZE == 50
SQRT3 == Fin(0, 1, 1)

\* class Hex, the forgiving constructor
\* a constructor that stores its three arguments as given
Hex_Uncorrected(q, r, s) == [q |-> q, r |-> r, s |-> s]

Hex(q, r, s) ==
    IF ~StrictEq(MathRound(Add(Add(q, r), s)), Num(0))
    THEN IF q # undefined /\ r # undefined
              THEN [q |-> q, r |-> r, s |-> Sub(Neg(q), r)]
         ELSE IF q # undefined /\ s # undefined
              THEN [q |-> q, r |-> Sub(Neg(q), s), s |-> s]
         ELSE IF r # undefined /\ s # undefined
              THEN [q |-> Sub(Neg(r), s), r |-> r, s |-> s]
         ELSE [q |-> Num(0), r |-> Num(0), s |-> Num(0)]
    ELSE [q |-> q, r |-> r, s |-> s]

Hex_add(hexA, hexB) ==
    Hex(Add(hexA.q, hexB.q), Add(hexA.r, hexB.r), Add(hexA.s, hexB.s))

Hex_equals(hexA, hexB) ==
    StrictEq(hexA.q, hexB.q) /\ StrictEq(hexA.r, hexB.r) /\ StrictEq(hexA.s, hexB.s)

HEX_CONSTANTS ==
    [layout |-> [orientation |->
        [f0 |-> [x |-> SQRT3, y |-> Div(SQRT3, Num(2))],
         f1 |-> [x |-> Div(SQRT3, Num(2)), y |-> Div(SQRT3, Num(2))],
         f2 |-> [x |-> Num(0), y |-> SQRT3],
         f3 |-> [x |-> Div(Neg(SQRT3), Num(2)), y |-> Div(SQRT3, Num(2))],
         f4 |-> [x |-> Neg(SQRT3), y |-> Num(0)],
         f5 |-> [x |-> Div(Neg(SQRT3), Num(2)), y |-> Div(Neg(SQRT3), Num(2))]]]]

hex_to_pixel(hex, layout) ==
    LET M == layout.orientation
        size == layout.hex_size
        origin == layout.origin
        q == hex.q
        r == hex.r
        pixelX == Add(Mul(size.q, Add(Mul(M.f0.x, q), Mul(M.f1.x, r))), origin.x)
        pixelY == Add(Mul(size.r, Add(Mul(M.f2.y, q), Mul(M.f3.y, r))), origin.y)
    IN  [x |-> pixelX, y |-> pixelY]

\* a rounding that recomputes q, then r, already on a tie of the errors
hex_round_TiesFirst(hex) ==
    LET rx == MathRound(hex.q)
        ry == MathRound(hex.r)
        rz == MathRound(hex.s)
        x_diff == MathAbs(Sub(rx, hex.q))
        y_diff == MathAbs(Sub(ry, hex.r))
        z_diff == MathAbs(Sub(rz, hex.s))
    IN  IF Ge(x_diff, y_diff) /\ Ge(x_diff, z_diff)
        THEN Hex(Sub(Neg(ry), rz), ry, rz)
        ELSE IF Ge(y_diff, z_diff)
        THEN Hex(rx, Sub(Neg(rx), rz), rz)
        ELSE Hex(rx, ry, Sub(Neg(rx), ry))

hex_round(hex) ==
    LET rx == MathRound(hex.q)
        ry == MathRound(hex.r)
        rz == MathRound(hex.s)
        x_diff == MathAbs(Sub(rx, hex.q))
        y_diff == MathAbs(Sub(ry, hex.r))
        z_diff == MathAbs(Sub(rz, hex.s))
    IN  IF Gt(x_diff, y_diff) /\ Gt(x_diff, z_diff)
        THEN Hex(Sub(Neg(ry), rz), ry, rz)
        ELSE IF Gt(y_diff, z_diff)
        THEN Hex(rx, Sub(Neg(rx), rz), rz)
        ELSE Hex(rx, ry, Sub(Neg(rx), ry))

\* a conversion that takes the point relative to the window's corner
pixel_to_hex_NoOrigin(point, layout) ==
    LET M == layout.orientation
        size == layout.hex_size
        pt == [x |-> Div(point.x, size.q), y |-> Div(point.y, size.r)]
        q == Add(Mul(M.f0.x, pt.x), Mul(M.f1.x, pt.y))
        r == Add(Mul(M.f2.y, pt.x), Mul(M.f3.y, pt.y))
    IN  hex_round(Hex(q, r, Sub(Neg(q), r)))

pixel_to_hex(point, layout) ==
    LET M == layout.orientation
        size == layout.hex_size
        origin == layout.origin
        pt == [x |-> Div(Sub(point.x, origin.x), size.q),
               y |-> Div(Sub(point.y, origin.y), size.r)]
        q == Add(Mul(M.f0.x, pt.x), Mul(M.f1.x, pt.y))
        r == Add(Mul(M.f2.y, pt.x), Mul(M.f3.y, pt.y))
    IN  hex_round(Hex(q, r, Sub(Neg(q), r)))

\* the layout object drawHex and onHexClick build
Layout(size, origin) ==
    [orientation |-> HEX_CONSTANTS.layout.orientation,
     hex_size |-> [q |-> size, r |-> size],
     origin |-> origin]

(***************************************************************************)
(* src/unnamed/part_000: updateGridDisplay                                 *)
(***************************************************************************)
targetMaxRadius == 5

\* the nested q/r loop of updateGridDisplay, one control step at a time:
\* "outer" and "inner" stand before the test of the respective for statement
LoopStart(R) ==
    [R |-> R, q |-> Neg(R), r |-> undefined, at |-> "outer", hexes |-> <<>>]

\* a loop whose inner for statement runs r up to R for every q
LoopStep_SquareInner(l) ==
    IF l.at = "outer"
    THEN IF Le(l.q, l.R)
         THEN [l EXCEPT !.r = MathMax(Neg(l.R), Sub(Neg(l.q), l.R)), !.at = "inner"]
         ELSE [l EXCEPT !.at = "done"]
    ELSE IF Le(l.r, l.R)
         THEN [l EXCEPT !.hexes = Append(@, Hex(l.q, l.r, Sub(Neg(l.q), l.r))),
                        !.r = Add(l.r, Num(1))]
         ELSE [l EXCEPT !.q = Add(l.q, Num(1)), !.at = "outer"]

LoopStep(l) ==
    IF l.at = "outer"
    THEN IF Le(l.q, l.R)
         THEN [l EXCEPT !.r = MathMax(Neg(l.R), Sub(Neg(l.q), l.R)), !.at = "inner"]
         ELSE [l EXCEPT !.at = "done"]
    ELSE IF Le(l.r, MathMin(l.R, Add(Neg(l.q), l.R)))
         THEN [l EXCEPT !.hexes = Append(@, Hex(l.q, l.r, Sub(Neg(l.q), l.r))),
                        !.r = Add(l.r, Num(1))]
         ELSE [l EXCEPT !.q = Add(l.q, Num(1)), !.at = "outer"]

\* the loop run to completion: the inner for statement, then the outer one.
\* Each control state is bound as a value before the run continues from it.
RECURSIVE LoopRunInner(_)
LoopRunInner(l) ==
    IF l.at # "inner" THEN l
    ELSE CHOOSE end \in {LoopRunInner(next) : next \in {LoopStep(l)}} : TRUE

RECURSIVE LoopRun(_)
LoopRun(l) ==
    IF l.at = "done" THEN l
    ELSE CHOOSE end \in {LoopRun(next) : next \in {LoopRunInner(first) : first \in {LoopStep(l)}}} : TRUE

\* an auto-fit that takes the larger of the two required sizes
GridDisplay_LargerSize(screenWidth, screenHeight) ==
    LET center == [x |-> Div(screenWidth, Num(2)), y |-> Div(screenHeight, Num(2))]
        requiredSizeForWidth ==
            IF targetMaxRadius > 0
            THEN Div(Div(screenWidth, Num(2 * targetMaxRadius + 1)), SQRT3)
            ELSE Div(screenWidth, Num(2))
        requiredSizeForHeight ==
            IF targetMaxRadius > 0
            THEN Div(Div(screenHeight, Num(2 * targetMaxRadius + 1)), Num(2))
            ELSE Div(screenHeight, Num(2))
        size == Mul(MathMax(requiredSizeForWidth, requiredSizeForHeight), Frac(9, 10))
        R_from_height == Div(Sub(Div(Div(screenHeight, size), Num(2)), Num(1)), Num(2))
        R_from_width == Div(Sub(Div(Div(screenWidth, size), SQRT3), Num(1)), Num(2))
        radius == MathMax(Num(0), MathFloor(MathMin(R_from_height, R_from_width)))
    IN  [currentScreenCenter |-> center,
         currentHexSize |-> size,
         currentMaxRadius |-> radius,
         hexes |-> LoopRun(LoopStart(radius)).hexes]

\* the numbers updateGridDisplay derives from the viewport, and the
\* coordinates its loop generates, in generation order
GridDisplay(screenWidth, screenHeight) ==
    LET center == [x |-> Div(screenWidth, Num(2)), y |-> Div(screenHeight, Num(2))]
        requiredSizeForWidth ==
            IF targetMaxRadius > 0
            THEN Div(Div(screenWidth, Num(2 * targetMaxRadius + 1)), SQRT3)
            ELSE Div(screenWidth, Num(2))
        requiredSizeForHeight ==
            IF targetMaxRadius > 0
            THEN Div(Div(screenHeight, Num(2 * targetMaxRadius + 1)), Num(2))
            ELSE Div(screenHeight, Num(2))
        size == Mul(MathMin(requiredSizeForWidth, requiredSizeForHeight), Frac(9, 10))
        R_from_height == Div(Sub(Div(Div(screenHeight, size), Num(2)), Num(1)), Num(2))
        R_from_width == Div(Sub(Div(Div(screenWidth, size), SQRT3), Num(1)), Num(2))
        radius == MathMax(Num(0), MathFloor(MathMin(R_from_height, R_from_width)))
    IN  [currentScreenCenter |-> center,
         currentHexSize |-> size,
         currentMaxRadius |-> radius,
         hexes |-> LoopRun(LoopStart(radius)).hexes]

(***************************************************************************)
(* src/script.js: Hex, HexGrid                                             *)
(***************************************************************************)
HEX_SIZE == 50
HEX_ORIENTATION == "flat-top"

Threw == [threw |-> TRUE]

\* Number-to-string conversion of a template literal, for the values the
\* programs print: decimal digits for an integer, with a leading minus sign
Digit(d) ==
    CASE d = 0 -> "0" [] d = 1 -> "1" [] d = 2 -> "2" [] d = 3 -> "3" [] d = 4 -> "4"
      [] d = 5 -> "5" [] d = 6 -> "6" [] d = 7 -> "7" [] d = 8 -> "8" [] d = 9 -> "9"

RECURSIVE NatToString(_)
NatToString(n) == IF n < 10 THEN Digit(n) ELSE NatToString(n \div 10) \o Digit(n % 10)

IntToString(n) == IF n < 0 THEN "-" \o NatToString(-n) ELSE NatToString(n)

NumberToString(x) ==
    CASE x = undefined -> "undefined"
      [] x = NaN -> "NaN"
      [] x = Infinity -> "Infinity"
      [] x = NegInfinity -> "-Infinity"
      [] IsInteger(x) -> IntToString(x.a)
      \* a non-integer is printed as the exact value it stands for
      [] OTHER -> "(" \o IntToString(x.a) \o "+" \o IntToString(x.b) \o "*sqrt(3))/"
                      \o NatToString(x.d)

\* a string value: the record of its characters
String(chars) == [string |-> chars]

\* a constructor that corrects s as the forgiving constructor of part_000 does
S_Hex_Correcting(q, r, s) ==
    LET z == IF ~StrictEq(Add(Add(q, r), s), Num(0)) THEN Sub(Neg(q), r) ELSE s
    IN  [q |-> q, r |-> r, s |-> z,
         id |-> String(NumberToString(q) \o "," \o NumberToString(r) \o "," \o NumberToString(z))]

\* class Hex of script.js, the strict constructor: the Error it throws is
\* the result Threw, which stands in the place of the object to the caller.
S_Hex(q, r, s) ==
    IF ~StrictEq(Add(Add(q, r), s), Num(0))
    THEN Threw
    ELSE [q |-> q, r |-> r, s |-> s,
          id |-> String(NumberToString(q) \o "," \o NumberToString(r) \o "," \o NumberToString(s))]

S_toPixel(hex, orientation, size, origin) ==
    LET x == IF orientation = "flat-top"
             THEN Mul(size, Mul(Frac(3, 2), hex.q))
             ELSE Mul(size, Add(Mul(SQRT3, hex.q), Mul(Div(SQRT3, Num(2)), hex.r)))
        y == IF orientation = "flat-top"
             THEN Mul(size, Add(Mul(Div(SQRT3, Num(2)), hex.q), Mul(SQRT3, hex.r)))
             ELSE Mul(size, Mul(Frac(3, 2), hex.r))
    IN  [x |-> Add(x, origin.x), y |-> Add(y, origin.y)]

\* new HexGrid(hexSize, hexOrientation); the Map hexes is the sequence of its
\* values in insertion order
HexGrid(hexSize, hexOrientation) ==
    [hexSize |-> hexSize, hexOrientation |-> hexOrientation,
     hexes |-> <<>>, gridCenter |-> [x |-> Num(0), y |-> Num(0)]]

\* HexGrid.generateGrid(width, height): the grid object after the call
generateGrid(grid, width, height) ==
    LET size == grid.hexSize
        flat == grid.hexOrientation = "flat-top"
        hexWidth == IF flat THEN Mul(size, Num(2)) ELSE Mul(size, SQRT3)
        hexHeight == IF flat THEN Mul(size, SQRT3) ELSE Mul(size, Num(2))
        qMax == IF flat
                THEN Add(MathCeil(Div(width, Mul(size, Frac(3, 2)))), Num(1))
                ELSE Add(MathCeil(Div(width, hexWidth)), Num(1))
        rMax == IF flat
                THEN Add(MathCeil(Div(height, hexHeight)), Num(1))
                ELSE Add(MathCeil(Div(height, Mul(size, Frac(3, 2)))), Num(1))
        qMin == Neg(qMax)
        rMin == Neg(rMax)
        gridCenter == [x |-> Div(width, Num(2)), y |-> Div(height, Num(2))]
        nr == rMax.a - rMin.a + 1
        nq == qMax.a - qMin.a + 1
        \* the q-major, r-minor sweep of the two nested for statements
        swept == [i \in 1..(nq * nr) |->
                    LET q == Num(qMin.a + ((i - 1) \div nr))
                        r == Num(rMin.a + ((i - 1) % nr))
                    IN  S_Hex(q, r, Sub(Neg(q), r))]
        inBounds(hex) ==
            LET pixel == S_toPixel(hex, grid.hexOrientation, size, gridCenter)
            IN  /\ Gt(pixel.x, Mul(Neg(size), Num(2)))
                /\ Lt(pixel.x, Add(width, Mul(size, Num(2))))
                /\ Gt(pixel.y, Mul(Neg(size), Num(2)))
                /\ Lt(pixel.y, Add(height, Mul(size, Num(2))))
    IN  [grid EXCEPT !.hexes = SelectSeq(swept, inBounds), !.gridCenter = gridCenter]

\* Map.get on hexes: the Hex stored under id, or undefined
HexesGet(hexes, id) ==
    IF \E i \in 1..Len(hexes) : hexes[i].id = id
    THEN hexes[CHOOSE i \in 1..Len(hexes) : hexes[i].id = id]
    ELSE undefined

(***************************************************************************)
(* src/script.js: GameRenderer.  The renderer is the record of its fields  *)
(* children (of hexGraphicsContainer), highlightGraphic and selectedHexId. *)
(***************************************************************************)
null == [null |-> TRUE]

\* a graphic is the record of what the handlers read back from it: the Hex
\* attached to it; its polygon, position and text are not modelled
createHexGraphic(hex) == [kind |-> "hex", hex |-> hex]

\* Container.removeChild: the children without the given object
RemoveChild(children, g) == SelectSeq(children, LAMBDA c : c # g)

\* the identity of a newly created highlight graphic: distinct from that of
\* every highlight graphic still in the container
FreshRef(children) ==
    LET used == {children[i].ref : i \in {j \in 1..Len(children) : children[j].kind = "highlight"}}
    IN  CHOOSE n \in 0..Cardinality(used) : n \notin used /\ \A m \in 0..(n - 1) : m \in used

drawHighlight(rnd, grid, hex) ==
    LET cleared == IF rnd.highlightGraphic # null
                   THEN RemoveChild(rnd.children, rnd.highlightGraphic)
                   ELSE rnd.children
        pixel == S_toPixel(hex, grid.hexOrientation, grid.hexSize, grid.gridCenter)
        graphic == [kind |-> "highlight", ref |-> FreshRef(cleared), position |-> pixel]
    IN  [children |-> Append(cleared, graphic),
         highlightGraphic |-> graphic,
         selectedHexId |-> hex.id]

drawGrid(rnd, grid) ==
    LET hexes == grid.hexes
        redrawn ==
            [children |-> [i \in 1..Len(hexes) |-> createHexGraphic(hexes[i])],
             highlightGraphic |-> null,
             selectedHexId |-> rnd.selectedHexId]
    IN  IF rnd.selectedHexId # null
        THEN LET selectedHex_ == HexesGet(hexes, rnd.selectedHexId)
             IN  IF selectedHex_ # undefined
                 THEN drawHighlight(redrawn, grid, selectedHex_)
                 ELSE [redrawn EXCEPT !.selectedHexId = null]
        ELSE redrawn

\* new GameRenderer(app, hexGrid)
GameRenderer(grid) ==
    drawGrid([children |-> <<>>, highlightGraphic |-> null, selectedHexId |-> null], grid)

(***************************************************************************)
(* src/unnamed/part_000: drawing and selection                             *)
(***************************************************************************)
DefaultOptions == [lineWidth |-> 1, lineColor |-> "0x333333", fillColor |-> "0xcccccc"]
HighlightOptions == [lineWidth |-> 3, lineColor |-> "0xff0000", fillColor |-> "0xffffa0"]

\* drawHex(hex, graphics, options): what every graphics object shows after it
drawHex(shown, hex, graphics, options) ==
    [shown EXCEPT ![graphics] = [text |-> <<hex.q, hex.r, hex.s>>, options |-> options]]

\* the objects the loop of updateGridDisplay creates: Hex i of grid number
\* epoch and its PIXI.Graphics
HexObject(h, epoch, i) == [q |-> h.q, r |-> h.r, s |-> h.s, ref |-> <<epoch, i>>]
GraphicsObject(hexObject) == [gref |-> hexObject.ref]

\* Map.get on hexGraphicsMap
MapGet(map, key) == IF key \in DOMAIN map THEN map[key] ELSE undefined

\* the search loop of onHexClick: the first member equal to clickedHex
FindHex(hexes, clickedHex) ==
    IF \E i \in 1..Len(hexes) : Hex_equals(hexes[i], clickedHex)
    THEN hexes[CHOOSE i \in 1..Len(hexes) :
                  /\ Hex_equals(hexes[i], clickedHex)
                  /\ \A j \in 1..(i - 1) : ~Hex_equals(hexes[j], clickedHex)]
    ELSE null

\* a handler that highlights foundHex first and then runs the block that
\* removes the highlight of the selected hex
Reselect_HighlightFirst(st, map, foundHex) ==
    LET graphics == MapGet(map, foundHex)
        selected ==
            IF foundHex # null /\ graphics # undefined
            THEN [canvas |-> drawHex(st.canvas, foundHex, graphics, HighlightOptions),
                  selectedHex |-> foundHex,
                  selectedHexGraphics |-> graphics]
            ELSE st
        prevGraphics == MapGet(map, selected.selectedHex)
    IN  IF selected.selectedHexGraphics # null
        THEN [canvas |-> IF prevGraphics # undefined
                         THEN drawHex(selected.canvas, selected.selectedHex, prevGraphics, DefaultOptions)
                         ELSE selected.canvas,
              selectedHex |-> null,
              selectedHexGraphics |-> null]
        ELSE selected

\* a handler that forgets the previous selection without redrawing its hex
Reselect_NoRedraw(st, map, foundHex) ==
    LET cleared == [canvas |-> st.canvas, selectedHex |-> null, selectedHexGraphics |-> null]
        graphics == MapGet(map, foundHex)
    IN  IF foundHex # null /\ graphics # undefined
        THEN [canvas |-> drawHex(cleared.canvas, foundHex, graphics, HighlightOptions),
              selectedHex |-> foundHex,
              selectedHexGraphics |-> graphics]
        ELSE cleared

\* onHexClick after the search: un-highlight the previous selection, then
\* highlight foundHex.  st holds canvas, selectedHex and selectedHexGraphics.
Reselect(st, map, foundHex) ==
    LET prevGraphics == MapGet(map, st.selectedHex)
        cleared ==
            IF st.selectedHexGraphics # null
            THEN [canvas |-> IF prevGraphics # undefined
                             THEN drawHex(st.canvas, st.selectedHex, prevGraphics, DefaultOptions)
                             ELSE st.canvas,
                  selectedHex |-> null,
                  selectedHexGraphics |-> null]
            ELSE st
        graphics == MapGet(map, foundHex)
    IN  IF foundHex # null /\ graphics # undefined
        THEN [canvas |-> drawHex(cleared.canvas, foundHex, graphics, HighlightOptions),
              selectedHex |-> foundHex,
              selectedHexGraphics |-> graphics]
        ELSE cleared

(***************************************************************************)
(* State.  A run executes one program of the repository or one of the      *)
(* geometry harnesses; the variables of the others keep their initial      *)
(* value.                                                                  *)
(***************************************************************************)
VARIABLES
    geo,                  \* geometry harness: the conversion carried out
    ctor,                 \* constructor harness: the call made, its result
    disk,                 \* loop harness: the nested loop's control state
    variant,              \* which program runs: "part_000" or "script"
    window,               \* the browser's innerWidth and innerHeight
    lastEvent,            \* the event handled last, the selection before it
    \* part_000
    currentHexSize, currentScreenCenter, currentMaxRadius,
    gameHexes, hexGraphicsMap, hexContainer,
    canvas,               \* what each PIXI.Graphics of hexContainer shows
    selectedHex, selectedHexGraphics,
    \* script.js
    hexGrid, renderer

partVars == <<currentHexSize, currentScreenCenter, currentMaxRadius, gameHexes,
              hexGraphicsMap, hexContainer, canvas, selectedHex, selectedHexGraphics>>
scriptVars == <<hexGrid, renderer>>
appVars == <<variant, window, lastEvent, partVars, scriptVars>>
vars == <<geo, ctor, disk, appVars>>

Off == [stage |-> "off"]

PartIdle ==
    /\ currentHexSize = null /\ currentScreenCenter = null /\ currentMaxRadius = null
    /\ gameHexes = <<>> /\ hexGraphicsMap = <<>> /\ hexContainer = <<>>
    /\ canvas = <<>> /\ selectedHex = null /\ selectedHexGraphics = null
ScriptIdle == hexGrid = null /\ renderer = null
AppIdle == variant = "none" /\ window = null /\ lastEvent = null /\ PartIdle /\ ScriptIdle

(***************************************************************************)
(* SpecGeom: hex_to_pixel, pixel_to_hex and hex_round applied to inputs    *)
(* drawn from bounded sets.                                                *)
(***************************************************************************)
MaxCoord == 2
MaxQuarter == 6

Pt(x, y) == [x |-> Num(x), y |-> Num(y)]
Cube(q, r) == Hex(Num(q), Num(r), Num(-q - r))

GeoCoords == {Cube(q, r) : q \in -MaxCoord..MaxCoord, r \in -MaxCoord..MaxCoord}
GeoSizes == {Num(1), Num(50)}
GeoOrigins == {Pt(0, 0), Pt(400, 300)}
GeoPoints == {Pt(x, y) : x \in {0, 350, 400, 450}, y \in {0, 150, 300}}
\* fractional cube triples as pixel_to_hex builds them: new Hex(q, r, -q - r)
GeoFracs ==
    {Hex(Frac(i, 4), Frac(j, 4), Sub(Neg(Frac(i, 4)), Frac(j, 4))) :
        i \in -MaxQuarter..MaxQuarter, j \in -MaxQuarter..MaxQuarter}

NoHex == [q |-> NaN, r |-> NaN, s |-> NaN]
NoPoint == [x |-> NaN, y |-> NaN]

GeoStart ==
    \/ \E c \in GeoCoords, sz \in GeoSizes, o \in GeoOrigins :
          geo = [stage |-> "hex", C |-> c, size |-> sz, origin |-> o,
                 point |-> NoPoint, frac |-> NoHex, out |-> NoHex]
    \/ \E p \in GeoPoints, sz \in GeoSizes, o \in GeoOrigins :
          geo = [stage |-> "point", C |-> NoHex, size |-> sz, origin |-> o,
                 point |-> p, frac |-> NoHex, out |-> NoHex]
    \/ \E f \in GeoFracs :
          geo = [stage |-> "frac", C |-> NoHex, size |-> Num(1), origin |-> Pt(0, 0),
                 point |-> NoPoint, frac |-> f, out |-> NoHex]

GeoInit == GeoStart /\ ctor = Off /\ disk = Off /\ AppIdle

HexToPixel ==
    /\ geo.stage = "hex"
    /\ geo' = [geo EXCEPT !.stage = "pixel",
                          !.point = hex_to_pixel(geo.C, Layout(geo.size, geo.origin))]
    /\ UNCHANGED <<ctor, disk, appVars>>

PixelToHex ==
    /\ geo.stage \in {"pixel", "point"}
    /\ geo' = [geo EXCEPT !.stage = IF geo.stage = "pixel" THEN "roundtrip" ELSE "resolved",
                          !.out = pixel_to_hex(geo.point, Layout(geo.size, geo.origin))]
    /\ UNCHANGED <<ctor, disk, appVars>>

HexRound ==
    /\ geo.stage = "frac"
    /\ geo' = [geo EXCEPT !.stage = "rounded", !.out = hex_round(geo.frac)]
    /\ UNCHANGED <<ctor, disk, appVars>>

GeoNext == HexToPixel \/ PixelToHex \/ HexRound

SpecGeom == GeoInit /\ [][GeoNext]_vars

\* C1: the pointy-top round trip pixel_to_hex(hex_to_pixel(C, layout), layout)
\* gives back C, component for component, for every integer cube coordinate
\* and every layout of positive cell size.
C1_RoundTrip ==
    geo.stage = "roundtrip" => Hex_equals(geo.out, geo.C)

\* the three rounding errors of a fractional cube triple and the triple that
\* results when one axis is recomputed from the naive roundings of the others
ErrQ(h) == MathAbs(Sub(MathRound(h.q), h.q))
ErrR(h) == MathAbs(Sub(MathRound(h.r), h.r))
ErrS(h) == MathAbs(Sub(MathRound(h.s), h.s))
IsLargest(e, h) == Ge(e, ErrQ(h)) /\ Ge(e, ErrR(h)) /\ Ge(e, ErrS(h))
Recomputed(axis, h) ==
    LET rx == MathRound(h.q)
        ry == MathRound(h.r)
        rz == MathRound(h.s)
    IN  CASE axis = "q" -> [q |-> Sub(Neg(ry), rz), r |-> ry, s |-> rz]
          [] axis = "r" -> [q |-> rx, r |-> Sub(Neg(rx), rz), s |-> rz]
          [] axis = "s" -> [q |-> rx, r |-> ry, s |-> Sub(Neg(rx), ry)]
IsIntegerZeroSum(h) ==
    /\ IsInteger(h.q) /\ IsInteger(h.r) /\ IsInteger(h.s)
    /\ h.q.a + h.r.a + h.s.a = 0

\* C7 as claimed: hex_round recomputes one axis with the largest rounding
\* error, and among axes that tie for largest the first in the order q, r, s.
C7_TieBreakQRS ==
    geo.stage = "rounded" =>
        LET h == geo.frac
            axis == IF IsLargest(ErrQ(h), h) THEN "q"
                    ELSE IF IsLargest(ErrR(h), h) THEN "r" ELSE "s"
        IN  IsIntegerZeroSum(geo.out) /\ geo.out = Recomputed(axis, h)

\* C7 amended: hex_round recomputes one axis with the largest rounding error,
\* and among axes that tie for largest the last in the order q, r, s: q only
\* when its error strictly exceeds both others, else r only when its error
\* strictly exceeds the s error, else s.  The result is an integer zero-sum
\* triple.
C7_TieBreakSRQ ==
    geo.stage = "rounded" =>
        LET h == geo.frac
            axis == IF IsLargest(ErrS(h), h) THEN "s"
                    ELSE IF IsLargest(ErrR(h), h) THEN "r" ELSE "q"
        IN  IsIntegerZeroSum(geo.out) /\ geo.out = Recomputed(axis, h)

\* C7 witness: (0.5, 0.5, -1) has been rounded; the q and r errors tie above
\* the s error and r was the axis recomputed.
C7_Witness ==
    /\ geo.stage = "rounded"
    /\ geo.frac = [q |-> Frac(1, 2), r |-> Frac(1, 2), s |-> Num(-1)]
    /\ geo.out = [q |-> Num(1), r |-> Num(0), s |-> Num(-1)]

IsScenarioLayout == geo.size = Num(50) /\ geo.origin = Pt(400, 300)

\* C8 as claimed: with cell size 50 and origin (400,300), the point (400,300)
\* resolves to (0,0,0) and the point (400,150) to a coordinate with r = -1.
C8_EndToEnd ==
    (geo.stage = "resolved" /\ IsScenarioLayout) =>
        /\ geo.point = Pt(400, 300) => geo.out = Cube(0, 0)
        /\ geo.point = Pt(400, 150) => geo.out.r = Num(-1)

\* C8 amended: with cell size 50 and origin (400,300), the point (400,300)
\* resolves to (0,0,0) and the point (400,150) to a coordinate with r = -2.
C8_EndToEndRowTwo ==
    (geo.stage = "resolved" /\ IsScenarioLayout) =>
        /\ geo.point = Pt(400, 300) => geo.out = Cube(0, 0)
        /\ geo.point = Pt(400, 150) => geo.out.r = Num(-2)

\* C8 witness: the click at (400,150) has been resolved under the scenario's
\* layout.
C8_Witness ==
    /\ geo.stage = "resolved" /\ IsScenarioLayout
    /\ geo.point = Pt(400, 150)
    /\ IsIntegerZeroSum(geo.out)

(***************************************************************************)
(* SpecDisk: the nested q/r loop of updateGridDisplay, step by step, for   *)
(* every radius up to MaxRadius.                                           *)
(***************************************************************************)
MaxRadius == 5

DiskInit ==
    /\ \E R \in 0..MaxRadius : disk = LoopStart(Num(R))
    /\ geo = Off /\ ctor = Off /\ AppIdle

DiskStep ==
    /\ disk.at # "done"
    /\ disk' = LoopStep(disk)
    /\ UNCHANGED <<geo, ctor, appVars>>

DiskNext == DiskStep

SpecDisk == DiskInit /\ [][DiskNext]_vars

MaxAbs3(a, b, c) ==
    LET m == IF AbsInt(a) > AbsInt(b) THEN AbsInt(a) ELSE AbsInt(b)
    IN  IF m > AbsInt(c) THEN m ELSE AbsInt(c)

\* the hexagonal disk of radius R: the zero-sum integer triples of norm <= R
InDisk(h, R) ==
    /\ IsIntegerZeroSum(h)
    /\ MaxAbs3(h.q.a, h.r.a, h.s.a) <= R
DiskAxial(R) ==
    {c \in (-R..R) \X (-R..R) : MaxAbs3(c[1], c[2], -c[1] - c[2]) <= R}

\* C4: for every radius R >= 0 the loop produces every coordinate of the
\* disk of radius R exactly once and no other coordinate: 3R^2 + 3R + 1
\* entries; before the loop ends it has produced no coordinate twice and
\* none outside the disk.
C4_DiskEnumeration ==
    LET hexes == disk.hexes
        R == disk.R.a
    IN  disk # Off =>
            /\ \A i, j \in 1..Len(hexes) : hexes[i] = hexes[j] => i = j
            /\ \A i \in 1..Len(hexes) : InDisk(hexes[i], R)
            /\ disk.at = "done" =>
                /\ {<<hexes[i].q.a, hexes[i].r.a>> : i \in 1..Len(hexes)} = DiskAxial(R)
                /\ Len(hexes) = 3 * R * R + 3 * R + 1

\* C4 witness: the loop has ended for radius 2 with 19 coordinates.
C4_Witness ==
    /\ disk # Off /\ disk.at = "done"
    /\ disk.R = Num(2) /\ Len(disk.hexes) = 19

(***************************************************************************)
(* SpecHex: constructions with integer arguments and Hex.add calls.        *)
(* ctor.made is the result of the call made last, ctor.held a part_000     *)
(* Hex kept from an earlier call.                                          *)
(***************************************************************************)
MaxArg == 1
MaxSum == 2

HexInit ==
    /\ ctor = [call |-> [fn |-> "none", args |-> <<>>], made |-> null, held |-> null]
    /\ geo = Off /\ disk = Off /\ AppIdle

\* new Hex(q, r, s) of part_000
CallHex ==
    /\ \E q, r, s \in -MaxArg..MaxArg :
          ctor' = [ctor EXCEPT !.call = [fn |-> "Hex", args |-> <<Num(q), Num(r), Num(s)>>],
                               !.made = Hex(Num(q), Num(r), Num(s))]
    /\ UNCHANGED <<geo, disk, appVars>>

\* new Hex(q, r, s) of script.js
CallStrictHex ==
    /\ \E q, r, s \in -MaxArg..MaxArg :
          ctor' = [ctor EXCEPT !.call = [fn |-> "S_Hex", args |-> <<Num(q), Num(r), Num(s)>>],
                               !.made = S_Hex(Num(q), Num(r), Num(s))]
    /\ UNCHANGED <<geo, disk, appVars>>

\* keep the part_000 Hex just made
Hold ==
    /\ ctor.call.fn \in {"Hex", "add"}
    /\ ctor' = [ctor EXCEPT !.held = ctor.made]
    /\ UNCHANGED <<geo, disk, appVars>>

\* Hex.add(held, made)
CallAdd ==
    /\ ctor.call.fn \in {"Hex", "add"}
    /\ ctor.held # null
    /\ MaxAbs3(ctor.held.q.a + ctor.made.q.a, ctor.held.r.a + ctor.made.r.a,
               ctor.held.s.a + ctor.made.s.a) <= MaxSum
    /\ ctor' = [ctor EXCEPT !.call = [fn |-> "add", args |-> <<ctor.held, ctor.made>>],
                            !.made = Hex_add(ctor.held, ctor.made)]
    /\ UNCHANGED <<geo, disk, appVars>>

HexNext == CallHex \/ CallStrictHex \/ Hold \/ CallAdd

SpecHex == HexInit /\ [][HexNext]_vars

\* C6: every Hex made from integer arguments is zero-sum.  The forgiving
\* constructor keeps q and r and yields s = -q - r; the strict constructor
\* yields an object only when the arguments sum to 0, and then the arguments;
\* Hex.add of two zero-sum hexes yields their component-wise sum.
C6_ZeroSum ==
    ctor # Off =>
        LET a == ctor.call.args
            made == ctor.made
        IN  /\ ctor.held # null => IsIntegerZeroSum(ctor.held)
            /\ ctor.call.fn = "Hex" =>
                /\ IsIntegerZeroSum(made)
                /\ made.q = a[1] /\ made.r = a[2]
                /\ made.s = Num(-a[1].a - a[2].a)
            /\ (ctor.call.fn = "S_Hex" /\ made # Threw) =>
                /\ a[1].a + a[2].a + a[3].a = 0
                /\ IsIntegerZeroSum(made)
                /\ <<made.q, made.r, made.s>> = a
            /\ ctor.call.fn = "add" =>
                /\ IsIntegerZeroSum(a[1]) /\ IsIntegerZeroSum(a[2])
                /\ IsIntegerZeroSum(made)
                /\ made.q = Num(a[1].q.a + a[2].q.a)
                /\ made.r = Num(a[1].r.a + a[2].r.a)
                /\ made.s = Num(a[1].s.a + a[2].s.a)

\* C6 witness: Hex.add has been called on a held Hex that the forgiving
\* constructor or an earlier add made, and gave a Hex other than the origin.
C6_Witness ==
    /\ ctor # Off
    /\ ctor.call.fn = "add"
    /\ ctor.made.q # Num(0)
    /\ ctor.call.args[1] # ctor.call.args[2]

\* the decimal numeral of a small integer, written out
Numeral(n) ==
    CASE n = -3 -> "-3" [] n = -2 -> "-2" [] n = -1 -> "-1" [] n = 0 -> "0"
      [] n = 1 -> "1" [] n = 2 -> "2" [] n = 3 -> "3"

\* C11: new Hex(q, r, s) of script.js with integer arguments throws if and
\* only if q + r + s is not 0.  When it throws, the caller receives the error
\* and no Hex object, corrected or not; when it does not throw, the object
\* holds exactly the given q, r and s and the id string "q,r,s".
C11_StrictConstruction ==
    (ctor # Off /\ ctor.call.fn = "S_Hex") =>
        LET a == ctor.call.args
            made == ctor.made
        IN  /\ (made = Threw) <=> (a[1].a + a[2].a + a[3].a # 0)
            /\ made = Threw => DOMAIN made = {"threw"}
            /\ made # Threw =>
                /\ DOMAIN made = {"q", "r", "s", "id"}
                /\ made.q = a[1] /\ made.r = a[2] /\ made.s = a[3]
                /\ made.id = [string |-> Numeral(a[1].a) \o "," \o Numeral(a[2].a)
                                            \o "," \o Numeral(a[3].a)]

\* C11 witness: the strict constructor was called with (1, 1, -1), whose sum
\* is 1, and threw.
C11_Witness ==
    /\ ctor # Off
    /\ ctor.call = [fn |-> "S_Hex", args |-> <<Num(1), Num(1), Num(-1)>>]
    /\ ctor.made = Threw

(***************************************************************************)
(* Spec: the two programs under resize and pointer events.  A run is one   *)
(* program, from the state its load handler leaves, under any sequence of  *)
(* events.                                                                 *)
(***************************************************************************)
\* the viewport sizes the browser may report, width then height
Viewports == {<<800, 600>>, <<600, 800>>, <<1400, 300>>, <<800, 0>>}
\* the points of the pointerdown events of part_000
ClickPoints == {Pt(400, 300), Pt(407, 300), Pt(414, 300), Pt(310, 400), Pt(700, 150), Pt(0, 0)}
\* the cell sizes and orientations a HexGrid of script.js is built with
HexSizes == {Num(HEX_SIZE), Num(2 * HEX_SIZE)}
Orientations == {HEX_ORIENTATION, "pointy-top"}
\* script.js: pointerdown events reach the hexes whose q and r lie within
\* ClickReach of the origin
ClickReach == 1

\* the viewports of the auto-fit runs: every width and height among the
\* multiples of 200 up to 200 * MaxSideSteps, aspect ratios from 1:MaxSideSteps
\* to MaxSideSteps:1
MaxSideSteps == 8
FitSides == {200 * k : k \in 1..MaxSideSteps}
FitViewports == {<<w, h>> : w \in FitSides, h \in FitSides}

Window(v) == [innerWidth |-> v[1], innerHeight |-> v[2]]

\* generateGrid and GridDisplay tabulated over the inputs above, so that each
\* grid is computed once
GridTable ==
    {<<size, o, v, generateGrid(HexGrid(size, o), Num(v[1]), Num(v[2]))>> :
        size \in HexSizes, o \in Orientations, v \in Viewports}
GeneratedGrid(grid, v) ==
    (CHOOSE t \in GridTable :
        t[1] = grid.hexSize /\ t[2] = grid.hexOrientation /\ t[3] = v)[4]
DisplayTable ==
    {<<v, GridDisplay(Num(v[1]), Num(v[2]))>> : v \in Viewports \cup FitViewports}
GridDisplayed(v) == (CHOOSE t \in DisplayTable : t[1] = v)[2]

\* ---- part_000 ----
\* the number of the grid updateGridDisplay builds next: the objects of a
\* new grid are distinct from every object still referenced
FreshEpoch ==
    LET live == IF selectedHex = null THEN {} ELSE {selectedHex.ref[1]}
    IN  CHOOSE n \in 0..Cardinality(live) : n \notin live /\ \A m \in 0..(n - 1) : m \in live

\* the objects the loop of updateGridDisplay creates for the coordinates of
\* the display d, as grid number epoch
GridObjects(d, epoch) ==
    [currentScreenCenter |-> d.currentScreenCenter,
     currentHexSize |-> d.currentHexSize,
     currentMaxRadius |-> d.currentMaxRadius,
     gameHexes |-> [i \in 1..Len(d.hexes) |-> HexObject(d.hexes[i], epoch, i)],
     hexContainer |->
        [i \in 1..Len(d.hexes) |-> GraphicsObject(HexObject(d.hexes[i], epoch, i))],
     hexGraphicsMap |->
        [h \in {HexObject(d.hexes[i], epoch, i) : i \in 1..Len(d.hexes)} |-> GraphicsObject(h)],
     canvas |->
        [g \in {GraphicsObject(HexObject(d.hexes[i], epoch, i)) : i \in 1..Len(d.hexes)} |->
            [text |-> <<d.hexes[g.gref[2]].q, d.hexes[g.gref[2]].r, d.hexes[g.gref[2]].s>>,
             options |-> DefaultOptions]]]

\* updateGridDisplay(): the grid state it leaves for the viewport win
updateGridDisplay(win, epoch) ==
    CHOOSE g \in {GridObjects(d, e) :
                    d \in {GridDisplayed(<<win.innerWidth, win.innerHeight>>)},
                    e \in {epoch}} : TRUE

SetGrid(g) ==
    /\ currentScreenCenter' = g.currentScreenCenter
    /\ currentHexSize' = g.currentHexSize
    /\ currentMaxRadius' = g.currentMaxRadius
    /\ gameHexes' = g.gameHexes
    /\ hexContainer' = g.hexContainer
    /\ hexGraphicsMap' = g.hexGraphicsMap
    /\ canvas' = g.canvas

\* init() in the viewport v: the first onWindowResize, nothing selected
Load(v) ==
    \E g \in {updateGridDisplay(Window(v), 0)} :
        /\ window = Window(v)
        /\ currentScreenCenter = g.currentScreenCenter
        /\ currentHexSize = g.currentHexSize
        /\ currentMaxRadius = g.currentMaxRadius
        /\ gameHexes = g.gameHexes
        /\ hexContainer = g.hexContainer
        /\ hexGraphicsMap = g.hexGraphicsMap
        /\ canvas = g.canvas
        /\ selectedHex = null /\ selectedHexGraphics = null
        /\ lastEvent = [type |-> "load"]

PartInit ==
    /\ variant = "part_000"
    /\ \E v \in Viewports : Load(v)
    /\ ScriptIdle

\* onWindowResize() when the window has become the viewport v
Resized(v) ==
    \E g \in {updateGridDisplay(Window(v), FreshEpoch)} :
        /\ window' = Window(v)
        /\ SetGrid(g)
        /\ UNCHANGED <<selectedHex, selectedHexGraphics>>
        /\ lastEvent' = [type |-> "resize",
                         before |-> [selectedHex |-> selectedHex,
                                     selectedHexGraphics |-> selectedHexGraphics]]

onWindowResize ==
    /\ variant = "part_000"
    /\ \E v \in Viewports : Resized(v)
    /\ UNCHANGED <<geo, ctor, disk, variant, scriptVars>>

\* the events the pointerdown listener may hand to onHexClick: a PIXI
\* interaction event, which carries data.global, or the DOM PointerEvent of
\* app.view, which has no data property
ClickEvents ==
    {[data |-> [global |-> p]] : p \in ClickPoints} \cup {[data |-> undefined]}

\* onHexClick(event).  Reading event.data.global of an event without data
\* throws before anything is assigned.
onHexClick ==
    /\ variant = "part_000"
    /\ \E event \in ClickEvents :
        IF event.data = undefined
        THEN /\ lastEvent' = [type |-> "click threw"]
             /\ UNCHANGED <<canvas, selectedHex, selectedHexGraphics>>
        ELSE \E clickPoint \in {[x |-> event.data.global.x, y |-> event.data.global.y]} :
             \E clickedHex \in
                    {pixel_to_hex(clickPoint, Layout(currentHexSize, currentScreenCenter))} :
             \E foundHex \in {FindHex(gameHexes, clickedHex)} :
             \E after \in {Reselect([canvas |-> canvas, selectedHex |-> selectedHex,
                                     selectedHexGraphics |-> selectedHexGraphics],
                                    hexGraphicsMap, foundHex)} :
                 /\ canvas' = after.canvas
                 /\ selectedHex' = after.selectedHex
                 /\ selectedHexGraphics' = after.selectedHexGraphics
                 /\ lastEvent' = [type |-> "click", point |-> clickPoint,
                                  before |-> [selectedHex |-> selectedHex,
                                              selectedHexGraphics |-> selectedHexGraphics]]
    /\ UNCHANGED <<currentHexSize, currentScreenCenter, currentMaxRadius, gameHexes,
                   hexGraphicsMap, hexContainer, window>>
    /\ UNCHANGED <<geo, ctor, disk, variant, scriptVars>>

\* ---- script.js ----
\* window.onload: the grid for the first viewport, the renderer over it
ScriptInit ==
    /\ variant = "script"
    /\ \E v \in Viewports, size \in HexSizes, o \in Orientations :
        /\ window = Window(v)
        /\ hexGrid = GeneratedGrid(HexGrid(size, o), v)
        /\ renderer = GameRenderer(hexGrid)
    /\ lastEvent = [type |-> "load"]
    /\ PartIdle

\* GameRenderer.resize()
resize ==
    /\ variant = "script"
    /\ \E v \in Viewports :
        LET grid == GeneratedGrid(hexGrid, v)
        IN  /\ window' = Window(v)
            /\ hexGrid' = grid
            /\ renderer' = drawGrid(renderer, grid)
    /\ lastEvent' = [type |-> "resize", before |-> [selectedHexId |-> renderer.selectedHexId]]
    /\ UNCHANGED <<geo, ctor, disk, variant, partVars>>

\* the values event.currentTarget.hex may have: undefined for the container
\* itself, or the Hex attached to one of its hex graphics
ClickTargets ==
    {undefined} \cup
    {renderer.children[i].hex : i \in
        {j \in 1..Len(renderer.children) :
            /\ renderer.children[j].kind = "hex"
            /\ AbsInt(renderer.children[j].hex.q.a) <= ClickReach
            /\ AbsInt(renderer.children[j].hex.r.a) <= ClickReach}}

\* GameRenderer.onHexClick(event)
S_onHexClick ==
    /\ variant = "script"
    /\ \E hex \in ClickTargets :
        /\ renderer' = IF hex # undefined THEN drawHighlight(renderer, hexGrid, hex)
                                           ELSE renderer
        /\ lastEvent' = [type |-> "click", hex |-> hex,
                         before |-> [selectedHexId |-> renderer.selectedHexId]]
    /\ UNCHANGED <<hexGrid, window>>
    /\ UNCHANGED <<geo, ctor, disk, variant, partVars>>

Init ==
    /\ geo = Off /\ ctor = Off /\ disk = Off
    /\ PartInit \/ ScriptInit

Next == onWindowResize \/ onHexClick \/ resize \/ S_onHexClick

Spec == Init /\ [][Next]_vars

\* the hex the click handled last resolves to, under the layout it was
\* resolved with (a click leaves the layout as it is)
LastClicked ==
    pixel_to_hex(lastEvent.point, Layout(currentHexSize, currentScreenCenter))
IsPartClick == variant = "part_000" /\ lastEvent.type = "click"

\* C2: in part_000 a click whose point resolves to no member of gameHexes
\* leaves selectedHex and selectedHexGraphics as they were before it.
C2_OutOfGridClickChangesNothing ==
    (IsPartClick /\ \A i \in 1..Len(gameHexes) : ~Hex_equals(gameHexes[i], LastClicked)) =>
        /\ selectedHex = lastEvent.before.selectedHex
        /\ selectedHexGraphics = lastEvent.before.selectedHexGraphics

\* C3: when a resize regenerates the grid without a member of the selected
\* hex's identity (q,r,s), the selection is empty once the handler returns:
\* selectedHexId is null in script.js, selectedHex is null in part_000.
C3_SelectionInvalidation ==
    lastEvent.type = "resize" =>
        /\ variant = "script" =>
            ((/\ lastEvent.before.selectedHexId # null
              /\ HexesGet(hexGrid.hexes, lastEvent.before.selectedHexId) = undefined)
                => renderer.selectedHexId = null)
        /\ variant = "part_000" =>
            ((/\ lastEvent.before.selectedHex # null
              /\ \A i \in 1..Len(gameHexes) :
                    ~Hex_equals(gameHexes[i], lastEvent.before.selectedHex))
                => selectedHex = null)

\* the coordinates examined for visibility: q and r within VisibleReach of the
\* origin, which covers every viewport of Viewports at every size of HexSizes
VisibleReach == 10

\* C5: after generateGrid(W, H) with W > 0 and H > 0, every integer coordinate
\* whose pixel center lies in the viewport, 0 <= x <= W and 0 <= y <= H, is a
\* member of the grid map.
C5_NoVisibleHexDropped ==
    (variant = "script" /\ window.innerWidth > 0 /\ window.innerHeight > 0) =>
        \A q, r \in -VisibleReach..VisibleReach :
            LET hex == S_Hex(Num(q), Num(r), Num(-q - r))
                origin == [x |-> Frac(window.innerWidth, 2), y |-> Frac(window.innerHeight, 2)]
                pixel == S_toPixel(hex, hexGrid.hexOrientation, hexGrid.hexSize, origin)
            IN  (/\ Ge(pixel.x, Num(0)) /\ Le(pixel.x, Num(window.innerWidth))
                 /\ Ge(pixel.y, Num(0)) /\ Le(pixel.y, Num(window.innerHeight)))
                    => HexesGet(hexGrid.hexes, hex.id) # undefined

\* C9: in part_000, after a click whose point resolves to a coordinate equal
\* to a member h of gameHexes, selectedHex is h and selectedHexGraphics is the
\* graphic hexGraphicsMap holds for h, whatever was selected before.
C9_ClickSelectsMember ==
    IsPartClick =>
        \A i \in 1..Len(gameHexes) :
            Hex_equals(gameHexes[i], LastClicked) =>
                /\ selectedHex = gameHexes[i]
                /\ selectedHexGraphics = hexGraphicsMap[gameHexes[i]]

\* C9 witness: a click has resolved to the member that was already selected
\* before it, and that member is selected.
C9_Witness ==
    /\ IsPartClick
    /\ selectedHex # null
    /\ lastEvent.before.selectedHex = selectedHex
    /\ \E i \in 1..Len(gameHexes) :
          gameHexes[i] = selectedHex /\ Hex_equals(gameHexes[i], LastClicked)

\* the hexes of gameHexes shown with the highlight options, and the
\* highlight graphics in the container of script.js
Highlighted ==
    {i \in 1..Len(gameHexes) : canvas[hexGraphicsMap[gameHexes[i]]].options = HighlightOptions}
HighlightChildren ==
    {i \in 1..Len(renderer.children) : renderer.children[i].kind = "highlight"}

\* C10: after any sequence of click and resize events at most one hex is
\* shown highlighted: in script.js the container holds at most one highlight
\* graphic, the one highlightGraphic references; in part_000 at most one
\* member of gameHexes has its graphic drawn with the highlight options.
C10_AtMostOneHighlight ==
    /\ variant = "script" =>
        /\ Cardinality(HighlightChildren) <= 1
        /\ \A i \in HighlightChildren : renderer.children[i] = renderer.highlightGraphic
    /\ variant = "part_000" => Cardinality(Highlighted) <= 1

\* C10 witness: in part_000 a click has moved the selection from one member
\* of the current grid to another, and exactly the new one is highlighted.
C10_Witness ==
    /\ IsPartClick
    /\ selectedHex # null
    /\ lastEvent.before.selectedHex # null
    /\ lastEvent.before.selectedHex # selectedHex
    /\ lastEvent.before.selectedHex \in DOMAIN hexGraphicsMap
    /\ Cardinality(Highlighted) = 1

\* C12: in part_000, after any sequence of click and resize events, a
\* non-null selectedHex is an element of the current gameHexes and
\* hexGraphicsMap maps it to a graphic drawn with the highlight options: the
\* selection never refers to a Hex of a grid that has been regenerated.
C12_SelectionIsCurrent ==
    (variant = "part_000" /\ selectedHex # null) =>
        /\ \E i \in 1..Len(gameHexes) : gameHexes[i] = selectedHex
        /\ selectedHex \in DOMAIN hexGraphicsMap
        /\ canvas[hexGraphicsMap[selectedHex]].options = HighlightOptions

(***************************************************************************)
(* SpecFit: part_000 loaded in and resized to any viewport of FitViewports *)
(***************************************************************************)
FitInit ==
    /\ geo = Off /\ ctor = Off /\ disk = Off
    /\ variant = "part_000"
    /\ \E v \in FitViewports : Load(v)
    /\ ScriptIdle

FitResize ==
    /\ variant = "part_000"
    /\ \E v \in FitViewports : Resized(v)
    /\ UNCHANGED <<geo, ctor, disk, variant, scriptVars>>

SpecFit == FitInit /\ [][FitResize]_vars

\* C13: for every viewport of positive width and height updateGridDisplay
\* computes currentMaxRadius = 5, the fixed targetMaxRadius, whatever the size
\* and aspect ratio, and the regenerated grid has exactly 91 hexes.
C13_AutoFitRadius ==
    (variant = "part_000" /\ window.innerWidth > 0 /\ window.innerHeight > 0) =>
        /\ currentMaxRadius = Num(targetMaxRadius)
        /\ currentMaxRadius = Num(5)
        /\ Len(gameHexes) = 91
        /\ Len(hexContainer) = 91

\* C13 witness: a resize to the narrowest and tallest viewport has
\* regenerated the grid.
C13_Witness ==
    /\ variant = "part_000"
    /\ lastEvent.type = "resize"
    /\ window = Window(<<200, 200 * MaxSideSteps>>)
    /\ currentHexSize # null
    /\ Len(gameHexes) = 91

====
